---- MODULE Spec2Model ----
(***************************************************************************)
(* Model of the Informix-to-Parquet archive tools:                         *)
(*   - fix_unl (pipe2s3.py): escape normalisation, trailing-pipe stripping, *)
(*     row reassembly by expected column count, short-row padding;          *)
(*   - main (pipe2s3.py): the per-table unload/upload/convert pipeline;     *)
(*   - validate_table (validate_archive.py): the archive validator.         *)
(* A text is a sequence of characters; a character is a one-element string. *)
(***************************************************************************)
EXTENDS Integers, Sequences, FiniteSets, TLC

VARIABLES
    \* ---- fix_unl ----
    rows,           \* the database rows the file was unloaded from (<<>> when the file is arbitrary text)
    exported,       \* TRUE when content is the unload of rows
    content,        \* the text read from the .unl file
    expected_cols,  \* fix_unl's expected_cols argument
    norm,           \* content after steps 1-4
    cleaned,        \* list of lines after step 5
    pos,            \* number of lines of cleaned already walked
    current,        \* the accumulator of step 6
    reassembled,    \* list of rows emitted by step 6
    final,          \* list of rows after step 7
    output,         \* the returned text
    rpc,            \* position in fix_unl
    \* ---- pipe2s3.main ----
    tables,         \* the list get_tables() returned
    no_schema,      \* the tables for which get_columns() returns no column
    ti,             \* number of tables the loop has started
    ppc,            \* position in main
    unl_path,       \* main's local: TRUE when bound to a path, FALSE when None
    parq_path,      \* main's local: TRUE when bound to a path, FALSE when None
    disk,           \* the local files that exist, as <<table, kind>>
    succeeded,      \* list of tables
    failed,         \* list of failures, each a table and its error text
    error,          \* the text of the exception being handled
    \* ---- validate_archive.validate_table ----
    available,      \* the table's Parquet file can be downloaded from S3
    archive,        \* what the Parquet file holds: num_rows, names, first row, null counts
    src_count,      \* what get_informix_count returns: a count or NONE
    src_cols,       \* what get_columns returns
    summary_only,   \* the --summary-only flag
    has_duckdb,     \* HAS_DUCKDB (HAS_PYARROW is taken to be True)
    loc,            \* validate_table's locals
    results,        \* validate_table's results dict
    fault_at,       \* the check that raised, or "none"
    local_copy,     \* the downloaded file exists on local disk
    vpc,            \* position in validate_table
    \* ---- validate_archive.main ----
    vtables,        \* the tables to validate
    s3_tables,      \* the tables whose Parquet file can be downloaded
    vi,             \* number of tables validated so far
    all_results,    \* list of results, each kept as its table and status
    tally,          \* print_summary's ok_count, warn_count, fail_count
    exit_code,      \* the status passed to sys.exit
    mpc             \* position in main

rvars == <<rows, exported, content, expected_cols, norm, cleaned, pos, current,
           reassembled, final, output, rpc>>

pvars == <<tables, no_schema, ti, ppc, unl_path, parq_path, disk, succeeded, failed, error>>

vvars == <<available, archive, src_count, src_cols, summary_only, has_duckdb,
           loc, results, fault_at, local_copy, vpc>>

mvars == <<vtables, s3_tables, vi, all_results, tally, exit_code, mpc>>

vars == <<rvars, pvars, vvars, mvars>>

(***************************************************************************)
(* Bounds                                                                  *)
(***************************************************************************)
MaxLen == 6         \* longest arbitrary file text, in characters
MaxDbLen == 6       \* longest database content, in field characters and separators
MaxCols == 3        \* largest expected column count
MaxTables == 2      \* longest table list of a pipeline run
MaxRowCount == 2    \* largest row count of a source table or an archive

(***************************************************************************)
(* Characters                                                              *)
(***************************************************************************)
BSLASH == "\\"
PIPE == "|"
NEWLINE == "\n"
SPACE == " "
ORD == "a"
SENTINEL == "x00"       \* the byte \x00 protecting a literal backslash
BROKENBAR == "xA6"      \* the byte \xA6 standing for a literal pipe

\* the characters of an arbitrary file text
Alphabet == {ORD, PIPE, BSLASH, NEWLINE}

\* all sequences over S of length at most n
SeqsUpTo(S, n) == UNION {[1..k -> S] : k \in 0..n}

(***************************************************************************)
(* String helpers (Python str methods)                                     *)
(***************************************************************************)
RECURSIVE Replace(_, _, _)
\* s.replace(old, new): leftmost non-overlapping occurrences
Replace(s, old, new) ==
    IF Len(s) < Len(old) THEN s
    ELSE IF SubSeq(s, 1, Len(old)) = old
         THEN new \o Replace(SubSeq(s, Len(old) + 1, Len(s)), old, new)
         ELSE <<Head(s)>> \o Replace(Tail(s), old, new)

RECURSIVE Split(_, _)
\* s.split(sep) for a one-character sep: always at least one piece
Split(s, sep) ==
    IF s = <<>> THEN << <<>> >>
    ELSE IF Head(s) = sep THEN << <<>> >> \o Split(Tail(s), sep)
         ELSE LET r == Split(Tail(s), sep)
              IN  << <<Head(s)>> \o Head(r) >> \o Tail(r)

RECURSIVE Count(_, _)
\* s.count(c) for a one-character c
Count(s, c) ==
    IF s = <<>> THEN 0
    ELSE (IF Head(s) = c THEN 1 ELSE 0) + Count(Tail(s), c)

RECURSIVE Join(_, _)
\* sep.join(parts)
Join(parts, sep) ==
    IF parts = <<>> THEN <<>>
    ELSE IF Len(parts) = 1 THEN Head(parts)
         ELSE Head(parts) \o sep \o Join(Tail(parts), sep)

\* c * n for a one-character c
Repeat(c, n) == [i \in 1..n |-> c]

\* s.endswith(c) for a one-character c
EndsWith(s, c) == Len(s) > 0 /\ s[Len(s)] = c

(***************************************************************************)
(* The Informix UNLOAD format (what fix_unl's docstring says it undoes)    *)
(***************************************************************************)
RECURSIVE EscapeField(_)
\* backslash doubled, pipe and newline each preceded by a backslash
EscapeField(f) ==
    IF f = <<>> THEN <<>>
    ELSE (IF Head(f) \in {BSLASH, PIPE, NEWLINE} THEN <<BSLASH, Head(f)>> ELSE <<Head(f)>>)
         \o EscapeField(Tail(f))

RECURSIVE UnloadRow(_)
\* every field is followed by the delimiter, so a row ends with one trailing pipe
UnloadRow(row) ==
    IF row = <<>> THEN <<>>
    ELSE EscapeField(Head(row)) \o <<PIPE>> \o UnloadRow(Tail(row))

RECURSIVE Unload(_)
\* one physical line (newline-terminated) per row
Unload(rs) ==
    IF rs = <<>> THEN <<>>
    ELSE UnloadRow(Head(rs)) \o <<NEWLINE>> \o Unload(Tail(rs))

(***************************************************************************)
(* fix_unl, step by step                                                   *)
(***************************************************************************)
\* Steps 1-4: escape normalisation
ProtectBackslashes(s) == Replace(s, <<BSLASH, BSLASH>>, <<SENTINEL>>)
EscapedPipes(s) == Replace(s, <<BSLASH, PIPE>>, <<BROKENBAR>>)
\* a continuation joined with no space
ContinuationsNoSpace(s) == Replace(s, <<BSLASH, NEWLINE>>, <<>>)
Continuations(s) == Replace(s, <<BSLASH, NEWLINE>>, <<SPACE>>)
RestoreBackslashes(s) == Replace(s, <<SENTINEL>>, <<BSLASH>>)

EscapeNormalize(s) ==
    RestoreBackslashes(Continuations(EscapedPipes(ProtectBackslashes(s))))

\* Step 5: strip one trailing pipe per line
StripTrailing(line) ==
    IF EndsWith(line, PIPE) THEN SubSeq(line, 1, Len(line) - 1) ELSE line

Cleaned(s) == LET lines == Split(s, NEWLINE)
              IN  [i \in 1..Len(lines) |-> StripTrailing(lines[i])]

\* number of fields of a line
ColCount(line) == Count(line, PIPE) + 1

\* the too-many branch starting over without emitting the accumulator
WalkLineDropsAccumulator(st, line, n) ==
    IF line = <<>> THEN st
    ELSE LET candidate == IF st.current # <<>> THEN st.current \o <<SPACE>> \o line
                          ELSE line
             col_count == ColCount(candidate)
         IN  IF col_count = n
             THEN [current |-> <<>>, reassembled |-> Append(st.reassembled, candidate)]
             ELSE IF col_count < n
             THEN [current |-> candidate, reassembled |-> st.reassembled]
             ELSE IF ColCount(line) = n
                  THEN [current |-> <<>>, reassembled |-> Append(st.reassembled, line)]
                  ELSE [current |-> line, reassembled |-> st.reassembled]

\* Step 6, one iteration of the loop body: st = [current, reassembled]
WalkLine(st, line, n) ==
    IF line = <<>> THEN st
    ELSE LET candidate == IF st.current # <<>> THEN st.current \o <<SPACE>> \o line
                          ELSE line
             col_count == ColCount(candidate)
         IN  IF col_count = n
             THEN [current |-> <<>>, reassembled |-> Append(st.reassembled, candidate)]
             ELSE IF col_count < n
             THEN [current |-> candidate, reassembled |-> st.reassembled]
             ELSE LET flushed == IF st.current # <<>>
                                 THEN Append(st.reassembled, st.current)
                                 ELSE st.reassembled
                  IN  IF ColCount(line) = n
                      THEN [current |-> <<>>, reassembled |-> Append(flushed, line)]
                      ELSE [current |-> line, reassembled |-> flushed]

RECURSIVE Walk(_, _, _)
\* Step 6, the whole loop
Walk(st, lines, n) ==
    IF lines = <<>> THEN st
    ELSE Walk(WalkLine(st, Head(lines), n), Tail(lines), n)

\* Step 6, after the loop: don't lose the last row
FlushLast(st) ==
    IF st.current # <<>> THEN Append(st.reassembled, st.current) ELSE st.reassembled

\* the short-row test written the wrong way round: nothing is padded
PadRowWrongTest(row, n) ==
    IF ColCount(row) > n THEN row \o Repeat(PIPE, n - ColCount(row)) ELSE row

\* padding computed from the pipe count instead of the field count
PadRowOneTooMany(row, n) ==
    IF ColCount(row) < n THEN row \o Repeat(PIPE, n - Count(row, PIPE)) ELSE row

\* Step 7: pad one short row
PadRow(row, n) ==
    IF ColCount(row) < n THEN row \o Repeat(PIPE, n - ColCount(row)) ELSE row

Pad(rs, n) == [i \in 1..Len(rs) |-> PadRow(rs[i], n)]

\* the returned text
Render(rs) == Join(rs, <<NEWLINE>>) \o <<NEWLINE>>

\* fix_unl as a function of the file text
FixUnlRows(s, n) ==
    Pad(FlushLast(Walk([current |-> <<>>, reassembled |-> <<>>],
                       Cleaned(EscapeNormalize(s)), n)), n)

FixUnl(s, n) == Render(FixUnlRows(s, n))

(***************************************************************************)
(* Inputs                                                                  *)
(***************************************************************************)
ColCounts == 1..MaxCols

\* arbitrary file texts
RawTexts == SeqsUpTo(Alphabet, MaxLen)

\* Database contents are drawn as token strings: field characters, a field
\* separator FS between the fields of a row and a row terminator RS.
FS == "FS"
RS == "RS"
DbTokens == Alphabet \cup {FS, RS}

DbRows(t) ==
    LET parts == Split(t, RS)
    IN  [i \in 1..(Len(parts) - 1) |-> Split(parts[i], FS)]

\* the token strings that are a list of rows of n fields each
IsDb(t, n) ==
    /\ (IF Len(t) = 0 THEN TRUE ELSE t[Len(t)] = RS)
    /\ \A i \in 1..Len(DbRows(t)) : Len(DbRows(t)[i]) = n

\* the concrete scenario: schema [id, name, notes], one row whose note holds a newline
ScenarioRows == << << <<"1">>, <<"A","l","i","c","e">>,
                     <<"H","e","l","l","o",NEWLINE,"w","o","r","l","d">> >> >>
ScenarioCols == Len(ScenarioRows[1])

RInitCommon ==
    /\ norm = <<>>
    /\ cleaned = <<>>
    /\ pos = 0
    /\ current = <<>>
    /\ reassembled = <<>>
    /\ final = <<>>
    /\ output = <<>>
    /\ rpc = "read"

\* fix_unl called on an arbitrary text
InitRepair ==
    /\ rows = <<>>
    /\ exported = FALSE
    /\ content \in RawTexts
    /\ expected_cols \in ColCounts
    /\ RInitCommon

\* fix_unl called on the unload of a table
InitExport ==
    /\ exported = TRUE
    /\ \/ /\ expected_cols \in ColCounts
          /\ \E t \in SeqsUpTo(DbTokens, MaxDbLen) :
                /\ IsDb(t, expected_cols)
                /\ rows = DbRows(t)
       \/ /\ expected_cols = ScenarioCols
          /\ rows = ScenarioRows
    /\ content = Unload(rows)
    /\ RInitCommon

(***************************************************************************)
(* Actions of fix_unl                                                      *)
(***************************************************************************)
\* lines 117-127
Normalize ==
    /\ rpc = "read"
    /\ norm' = EscapeNormalize(content)
    /\ rpc' = "strip"
    /\ UNCHANGED <<rows, exported, content, expected_cols, cleaned, pos, current,
                   reassembled, final, output, pvars, vvars, mvars>>

\* lines 129-141
SplitAndStrip ==
    /\ rpc = "strip"
    /\ cleaned' = Cleaned(norm)
    /\ pos' = 0
    /\ current' = <<>>
    /\ reassembled' = <<>>
    /\ rpc' = "walk"
    /\ UNCHANGED <<rows, exported, content, expected_cols, norm, final, output, pvars, vvars, mvars>>

\* lines 143-168, one line of the loop
Reassemble ==
    /\ rpc = "walk"
    /\ pos < Len(cleaned)
    /\ LET st == WalkLine([current |-> current, reassembled |-> reassembled],
                          cleaned[pos + 1], expected_cols)
       IN  /\ current' = st.current
           /\ reassembled' = st.reassembled
    /\ pos' = pos + 1
    /\ UNCHANGED <<rows, exported, content, expected_cols, norm, cleaned, final,
                   output, rpc, pvars, vvars, mvars>>

\* lines 170-172
Flush ==
    /\ rpc = "walk"
    /\ pos = Len(cleaned)
    /\ reassembled' = FlushLast([current |-> current, reassembled |-> reassembled])
    /\ rpc' = "pad"
    /\ UNCHANGED <<rows, exported, content, expected_cols, norm, cleaned, pos,
                   current, final, output, pvars, vvars, mvars>>

\* lines 174-182
PadAndReturn ==
    /\ rpc = "pad"
    /\ final' = Pad(reassembled, expected_cols)
    /\ output' = Render(Pad(reassembled, expected_cols))
    /\ rpc' = "done"
    /\ UNCHANGED <<rows, exported, content, expected_cols, norm, cleaned, pos,
                   current, reassembled, pvars, vvars, mvars>>

\* fix_unl not running
RIdle ==
    /\ rows = <<>>
    /\ exported = FALSE
    /\ content = <<>>
    /\ expected_cols = 1
    /\ norm = <<>>
    /\ cleaned = <<>>
    /\ pos = 0
    /\ current = <<>>
    /\ reassembled = <<>>
    /\ final = <<>>
    /\ output = <<>>
    /\ rpc = "idle"

NextRepair == Normalize \/ SplitAndStrip \/ Reassemble \/ Flush \/ PadAndReturn


(***************************************************************************)
(* pipe2s3.main: the per-table pipeline                                    *)
(* External steps (dbaccess, aws, pyarrow) succeed or raise; os.remove and *)
(* os.path.getsize on a file that exists are taken to succeed.             *)
(***************************************************************************)
TableNames == {"t1", "t2", "t3"}

\* lists of distinct table names
TableLists ==
    {t \in SeqsUpTo(TableNames, MaxTables) :
        \A i \in 1..Len(t) : \A j \in 1..Len(t) : i # j => t[i] # t[j]}

\* the three local artifacts of a table
UNL == "unl"
TMP == "tmp"
PARQUET == "parquet"
Artifacts(t) == {<<t, UNL>>, <<t, TMP>>, <<t, PARQUET>>}

\* the table being processed
table == tables[ti]

\* the pipeline not running
PIdle ==
    /\ tables = <<>>
    /\ no_schema = {}
    /\ error = ""
    /\ ti = 0
    /\ ppc = "idle"
    /\ unl_path = FALSE
    /\ parq_path = FALSE
    /\ disk = {}
    /\ succeeded = <<>>
    /\ failed = <<>>

\* lines 263-288: the working directories hold no table artifact
InitPipeline ==
    /\ tables \in TableLists
    /\ no_schema \in SUBSET {tables[i] : i \in 1..Len(tables)}
    /\ error = ""
    /\ ti = 0
    /\ ppc = "loop"
    /\ unl_path = FALSE
    /\ parq_path = FALSE
    /\ disk = {}
    /\ succeeded = <<>>
    /\ failed = <<>>

\* lines 290-293
BeginTable ==
    /\ ppc = "loop"
    /\ ti < Len(tables)
    /\ ti' = ti + 1
    /\ unl_path' = FALSE
    /\ parq_path' = FALSE
    /\ ppc' = "unload"
    /\ UNCHANGED <<tables, no_schema, disk, succeeded, failed, error, rvars, vvars, mvars>>

\* lines 295-299 with unload_table (82-95): dbaccess writes the file and returns 0
UnloadOk ==
    /\ ppc = "unload"
    /\ disk' = disk \cup {<<table, UNL>>}
    /\ unl_path' = TRUE
    /\ ppc' = "copy_unl"
    /\ UNCHANGED <<tables, no_schema, ti, parq_path, succeeded, failed, error, rvars, vvars, mvars>>

\* lines 93-94: dbaccess returns nonzero and unload_table raises before it
\* returns the path; the UNLOAD may have written part of the file by then
UnloadFails ==
    /\ ppc = "unload"
    /\ \E partial \in BOOLEAN :
          disk' = IF partial THEN disk \cup {<<table, UNL>>} ELSE disk
    /\ error' = "Unload failed"
    /\ ppc' = "except"
    /\ UNCHANGED <<tables, no_schema, ti, unl_path, parq_path, succeeded, failed, rvars, vvars, mvars>>

\* lines 301-303 with s3_copy (225-236)
CopyUnl ==
    /\ ppc = "copy_unl"
    /\ \E ok \in BOOLEAN :
          /\ ppc' = IF ok THEN "columns" ELSE "except"
          /\ error' = IF ok THEN error ELSE "S3 upload failed"
    /\ UNCHANGED <<tables, no_schema, ti, unl_path, parq_path, disk, succeeded, failed, rvars, vvars, mvars>>

\* convert_to_parquet going on with an empty column list
GetColumnsNoCheck ==
    /\ ppc = "columns"
    /\ ppc' = "fix"
    /\ error' = error
    /\ UNCHANGED <<tables, no_schema, ti, unl_path, parq_path, disk, succeeded, failed, rvars, vvars, mvars>>

\* lines 187-195: an empty column list raises
GetColumns ==
    /\ ppc = "columns"
    /\ ppc' = IF table \in no_schema THEN "except" ELSE "fix"
    /\ error' = IF table \in no_schema THEN "Could not retrieve column names from syscolumns"
                ELSE error
    /\ UNCHANGED <<tables, no_schema, ti, unl_path, parq_path, disk, succeeded, failed, rvars, vvars, mvars>>

\* lines 197-200: fix_unl, then the repaired text is written to the .tmp file;
\* a write that raises leaves the file open() created
WriteTmp ==
    /\ ppc = "fix"
    /\ disk' = disk \cup {<<table, TMP>>}
    /\ \E ok \in BOOLEAN :
          /\ ppc' = IF ok THEN "read_csv" ELSE "except"
          /\ error' = IF ok THEN error ELSE "write failed"
    /\ UNCHANGED <<tables, no_schema, ti, unl_path, parq_path, succeeded, failed, rvars, vvars, mvars>>

\* lines 202-214
ReadCsv ==
    /\ ppc = "read_csv"
    /\ \E ok \in BOOLEAN :
          /\ ppc' = IF ok THEN "write_parquet" ELSE "except"
          /\ error' = IF ok THEN error ELSE "read_csv failed"
    /\ UNCHANGED <<tables, no_schema, ti, unl_path, parq_path, disk, succeeded, failed, rvars, vvars, mvars>>

\* line 216: pq.write_table writes the archive file
WriteParquetOk ==
    /\ ppc = "write_parquet"
    /\ disk' = disk \cup {<<table, PARQUET>>}
    /\ ppc' = "remove_tmp"
    /\ UNCHANGED <<tables, no_schema, ti, unl_path, parq_path, succeeded, failed, error, rvars, vvars, mvars>>

\* line 216 raising: the writer may or may not leave a partial file
WriteParquetFails ==
    /\ ppc = "write_parquet"
    /\ \E partial \in BOOLEAN :
          disk' = IF partial THEN disk \cup {<<table, PARQUET>>} ELSE disk
    /\ error' = "write_table failed"
    /\ ppc' = "except"
    /\ UNCHANGED <<tables, no_schema, ti, unl_path, parq_path, succeeded, failed, rvars, vvars, mvars>>

\* lines 217-218 and 307-309: convert_to_parquet returns the path
RemoveTmp ==
    /\ ppc = "remove_tmp"
    /\ disk' = disk \ {<<table, TMP>>}
    /\ parq_path' = TRUE
    /\ ppc' = "copy_parq"
    /\ UNCHANGED <<tables, no_schema, ti, unl_path, succeeded, failed, error, rvars, vvars, mvars>>

\* lines 311-313
CopyParquet ==
    /\ ppc = "copy_parq"
    /\ \E ok \in BOOLEAN :
          /\ ppc' = IF ok THEN "cleanup" ELSE "except"
          /\ error' = IF ok THEN error ELSE "S3 upload failed"
    /\ UNCHANGED <<tables, no_schema, ti, unl_path, parq_path, disk, succeeded, failed, rvars, vvars, mvars>>

\* lines 315-319
CleanUp ==
    /\ ppc = "cleanup"
    /\ disk' = disk \ {<<table, UNL>>, <<table, PARQUET>>}
    /\ succeeded' = Append(succeeded, table)
    /\ ppc' = "loop"
    /\ UNCHANGED <<tables, no_schema, ti, unl_path, parq_path, failed, error, rvars, vvars, mvars>>

\* what the handler removes: the paths main's locals are bound to
HandlerRemoves(t, unl, parq) ==
    (IF unl THEN {<<t, UNL>>, <<t, TMP>>} ELSE {})
    \cup (IF parq THEN {<<t, PARQUET>>} ELSE {})

\* lines 321-330
Handler ==
    /\ ppc = "except"
    /\ failed' = Append(failed, [table |-> table, error |-> error])
    /\ disk' = disk \ HandlerRemoves(table, unl_path, parq_path)
    /\ ppc' = "loop"
    /\ UNCHANGED <<tables, no_schema, ti, unl_path, parq_path, succeeded, error, rvars, vvars, mvars>>

\* lines 332-351
Summary ==
    /\ ppc = "loop"
    /\ ti = Len(tables)
    /\ ppc' = "done"
    /\ UNCHANGED <<tables, no_schema, ti, unl_path, parq_path, disk, succeeded, failed, error, rvars, vvars, mvars>>

NextPipeline ==
    \/ BeginTable \/ UnloadOk \/ UnloadFails \/ CopyUnl \/ GetColumns \/ WriteTmp
    \/ ReadCsv \/ WriteParquetOk \/ WriteParquetFails \/ RemoveTmp \/ CopyParquet
    \/ CleanUp \/ Handler \/ Summary

(***************************************************************************)
(* validate_archive.validate_table                                         *)
(* The collaborators (dbaccess, aws, pyarrow, duckdb) answer from the      *)
(* inputs below or raise; a raise inside the try block is a fault.         *)
(***************************************************************************)
\* Python's None where a count is expected
NONE == -1
\* Python's None as a first-row value
NULL == "<None>"
MISSING == "<MISSING>"

Names == {"id", "name"}
Values == Names \cup {"x", NULL}

\* ordered lists of distinct column names
NameLists ==
    {c \in SeqsUpTo(Names, Cardinality(Names)) :
        \A i \in 1..Len(c) : \A j \in 1..Len(c) : i # j => c[i] # c[j]}

\* the archives with the given columns and row count: the first row and the
\* per-column null counts agree with each other
ArchivesWith(names, n) ==
    IF n = 0
    THEN {[num_rows |-> 0, names |-> names, first |-> <<>>,
           nulls |-> [i \in 1..Len(names) |-> 0]]}
    ELSE {a \in [num_rows : {n}, names : {names},
                 first : [1..Len(names) -> Values],
                 nulls : [1..Len(names) -> 0..n]] :
             \A i \in 1..Len(names) :
                 IF a.first[i] = NULL THEN a.nulls[i] >= 1 ELSE a.nulls[i] <= n - 1}

Archives == UNION {ArchivesWith(names, n) : names \in NameLists, n \in 0..MaxRowCount}

\* the concrete scenario: the archive holds 950 rows, the source table 1000
ScenarioArchive == [num_rows |-> 950, names |-> <<"id">>, first |-> <<"x">>, nulls |-> <<0>>]
ScenarioSource == [num_rows |-> 1000]

NoArchive == [num_rows |-> 0, names |-> <<>>, first |-> <<>>, nulls |-> <<>>]

\* lines 233-247
InitialResults ==
    [row_count_informix |-> NONE,
     row_count_parquet |-> NONE,
     row_count_match |-> FALSE,
     col_count_informix |-> NONE,
     col_count_parquet |-> NONE,
     col_count_match |-> FALSE,
     col_names_match |-> FALSE,
     col_name_mismatches |-> <<>>,
     first_row_check |-> "SKIPPED",
     null_columns |-> <<>>,
     status |-> "UNKNOWN",
     errors |-> <<>>]

InitialLocals ==
    [informix_count |-> NONE, parquet_count |-> NONE,
     informix_cols |-> <<>>, parquet_cols |-> <<>>,
     first_present |-> FALSE, parq_first |-> <<>>, null_counts |-> <<>>]

\* the entries of results["errors"]
ErrNoParquet == [kind |-> "Could not download Parquet file from S3", a |-> 0, b |-> 0, diff |-> 0]
ErrRowCount(ic, pc) == [kind |-> "Row count mismatch", a |-> ic, b |-> pc, diff |-> pc - ic]
ErrHeaderShift == [kind |-> "First row looks like column names", a |-> 0, b |-> 0, diff |-> 0]
ErrFault == [kind |-> "str(e)", a |-> 0, b |-> 0, diff |-> 0]

FAIL == "FAIL - first row appears to be column headers!"

\* a Python value used as a condition: None and 0 are false
Truthy(count) == count # NONE /\ count # 0

\* get_parquet_row_count (155-165), get_parquet_columns (168-178), pyarrow branch
ParquetRowCount(a) == a.num_rows
ParquetColumns(a) == a.names

\* get_parquet_first_row (181-195), pyarrow branch: None for no rows
FirstRowPresent(a) == a.num_rows > 0

\* lines 264-268
RowCountMatch(ic, pc) == ic # NONE /\ pc # NONE /\ ic = pc

\* lines 270-276
RowCountErrors(ic, pc) ==
    IF ~RowCountMatch(ic, pc) /\ Truthy(ic) /\ Truthy(pc) THEN <<ErrRowCount(ic, pc)>> ELSE <<>>

\* lines 289-291
ColNamesMatch(icols, pcols) == Len(icols) > 0 /\ Len(pcols) > 0 /\ icols = pcols

Max(x, y) == IF x >= y THEN x ELSE y
ColAt(cols, idx) == IF idx <= Len(cols) THEN cols[idx] ELSE MISSING

\* lines 292-301
ColNameMismatches(icols, pcols) ==
    IF Len(icols) > 0 /\ Len(pcols) > 0 /\ icols # pcols
    THEN SelectSeq([idx \in 1..Max(Len(icols), Len(pcols)) |->
                       [col |-> idx, informix |-> ColAt(icols, idx), parquet |-> ColAt(pcols, idx)]],
                   LAMBDA m : m.informix # m.parquet)
    ELSE <<>>

\* lines 310-312
Overlap(icols, first) ==
    {icols[i] : i \in 1..Len(icols)}
    \cap {first[i] : i \in {j \in 1..Len(first) : first[j] # NULL}}

\* the header test taken at half or more
FirstRowCheckAtHalf(icols, present, first) ==
    IF present /\ Len(first) > 0
    THEN IF 2 * Cardinality(Overlap(icols, first)) >= Len(icols) THEN FAIL ELSE "OK"
    ELSE "EMPTY TABLE"

\* lines 306-320: the outcome of the first-row check
FirstRowCheck(icols, present, first) ==
    IF present /\ Len(first) > 0
    THEN IF 2 * Cardinality(Overlap(icols, first)) > Len(icols) THEN FAIL ELSE "OK"
    ELSE "EMPTY TABLE"

\* get_parquet_null_counts (198-224): {} is the empty list
NullCountsOf(duckdb, a, duckdb_ok) ==
    IF duckdb
    THEN IF Len(a.names) = 0 \/ ~duckdb_ok THEN <<>> ELSE a.nulls
    ELSE a.nulls

NullCounts(a, duckdb_ok) == NullCountsOf(has_duckdb, a, duckdb_ok)

\* lines 325-328
NullColumns(pcols, null_counts, pc) ==
    IF Len(null_counts) > 0 /\ Truthy(pc)
    THEN SelectSeq([i \in 1..Len(null_counts) |-> [col |-> pcols[i], nulls |-> null_counts[i]]],
                   LAMBDA e : e.nulls = pc)
    ELSE <<>>

\* lines 332-344
Classify(r) ==
    IF r.row_count_match /\ r.col_count_match /\ r.col_names_match
    THEN IF r.first_row_check \in {"OK", "SKIPPED", "EMPTY TABLE"} THEN "OK" ELSE "WARNING"
    ELSE IF ~r.row_count_match THEN "ROW MISMATCH"
    ELSE IF ~r.col_count_match THEN "COL MISMATCH"
    ELSE IF ~r.col_names_match THEN "NAME MISMATCH"
    ELSE "WARNING"

\* validate_table not running
VIdle ==
    /\ available = FALSE
    /\ archive = NoArchive
    /\ src_count = NONE
    /\ src_cols = <<>>
    /\ summary_only = FALSE
    /\ has_duckdb = FALSE
    /\ loc = InitialLocals
    /\ results = InitialResults
    /\ fault_at = "none"
    /\ local_copy = FALSE
    /\ vpc = "idle"

\* validate_table called (lines 231-247)
InitValidate ==
    /\ \/ /\ available = TRUE
          /\ archive \in Archives
          /\ src_count \in {NONE} \cup (0..MaxRowCount)
       \/ /\ available = FALSE
          /\ archive = NoArchive
          /\ src_count \in {NONE} \cup (0..MaxRowCount)
       \/ /\ available = TRUE
          /\ archive = ScenarioArchive
          /\ src_count = ScenarioSource.num_rows
    /\ src_cols \in NameLists
    /\ summary_only \in BOOLEAN
    /\ has_duckdb \in BOOLEAN
    /\ loc = InitialLocals
    /\ results = InitialResults
    /\ fault_at = "none"
    /\ local_copy = FALSE
    /\ vpc = "download"

vinputs == <<available, archive, src_count, src_cols, summary_only, has_duckdb>>

\* lines 249-254
Download ==
    /\ vpc = "download"
    /\ IF available
       THEN /\ local_copy' = TRUE
            /\ vpc' = "check1"
            /\ UNCHANGED results
       ELSE /\ results' = [results EXCEPT !.status = "NO PARQUET",
                                          !.errors = Append(@, ErrNoParquet)]
            /\ vpc' = "done"
            /\ UNCHANGED local_copy
    /\ UNCHANGED <<vinputs, loc, fault_at, rvars, pvars, mvars>>

\* lines 257-276
Check1 ==
    /\ vpc = "check1"
    /\ LET ic == src_count
           pc == ParquetRowCount(archive)
       IN  /\ loc' = [loc EXCEPT !.informix_count = ic, !.parquet_count = pc]
           /\ results' = [results EXCEPT !.row_count_informix = ic,
                                         !.row_count_parquet = pc,
                                         !.row_count_match = RowCountMatch(ic, pc),
                                         !.errors = @ \o RowCountErrors(ic, pc)]
    /\ vpc' = "check2"
    /\ UNCHANGED <<vinputs, fault_at, local_copy, rvars, pvars, mvars>>

\* lines 278-285
Check2 ==
    /\ vpc = "check2"
    /\ LET icols == src_cols
           pcols == ParquetColumns(archive)
       IN  /\ loc' = [loc EXCEPT !.informix_cols = icols, !.parquet_cols = pcols]
           /\ results' = [results EXCEPT !.col_count_informix = Len(icols),
                                         !.col_count_parquet = Len(pcols),
                                         !.col_count_match = (Len(icols) = Len(pcols))]
    /\ vpc' = "check3"
    /\ UNCHANGED <<vinputs, fault_at, local_copy, rvars, pvars, mvars>>

\* lines 287-301
Check3 ==
    /\ vpc = "check3"
    /\ results' = [results EXCEPT
                      !.col_names_match = ColNamesMatch(loc.informix_cols, loc.parquet_cols),
                      !.col_name_mismatches =
                          @ \o ColNameMismatches(loc.informix_cols, loc.parquet_cols)]
    /\ vpc' = "check4"
    /\ UNCHANGED <<vinputs, loc, fault_at, local_copy, rvars, pvars, mvars>>

\* lines 303-320
Check4 ==
    /\ vpc = "check4"
    /\ IF summary_only
       THEN UNCHANGED <<loc, results>>
       ELSE LET present == FirstRowPresent(archive)
                first == archive.first
                outcome == FirstRowCheck(loc.informix_cols, present, first)
            IN  /\ loc' = [loc EXCEPT !.first_present = present, !.parq_first = first]
                /\ results' = [results EXCEPT
                                  !.first_row_check = outcome,
                                  !.errors = IF outcome = FAIL
                                             THEN Append(@, ErrHeaderShift) ELSE @]
    /\ vpc' = "check5"
    /\ UNCHANGED <<vinputs, fault_at, local_copy, rvars, pvars, mvars>>

\* lines 322-328
Check5 ==
    /\ vpc = "check5"
    /\ \E duckdb_ok \in BOOLEAN :
          LET null_counts == NullCounts(archive, duckdb_ok)
          IN  /\ loc' = [loc EXCEPT !.null_counts = null_counts]
              /\ results' = [results EXCEPT
                                !.null_columns =
                                    @ \o NullColumns(loc.parquet_cols, null_counts,
                                                     loc.parquet_count)]
    /\ vpc' = "status"
    /\ UNCHANGED <<vinputs, fault_at, local_copy, rvars, pvars, mvars>>

\* lines 330-344
Status ==
    /\ vpc = "status"
    /\ results' = [results EXCEPT !.status = Classify(results)]
    /\ vpc' = "finally"
    /\ UNCHANGED <<vinputs, loc, fault_at, local_copy, rvars, pvars, mvars>>

\* the except clause forgetting to set the status
FaultedNoStatus(r) == [r EXCEPT !.errors = Append(@, ErrFault)]

\* lines 346-348
Faulted(r) == [r EXCEPT !.status = "ERROR", !.errors = Append(@, ErrFault)]

\* lines 346-348: a collaborator called by a check raises
Fault ==
    /\ vpc \in {"check1", "check2", "check4", "check5"}
    /\ vpc = "check4" => ~summary_only
    /\ fault_at' = vpc
    /\ results' = Faulted(results)
    /\ vpc' = "finally"
    /\ UNCHANGED <<vinputs, loc, local_copy, rvars, pvars, mvars>>

\* lines 350-355
Finally ==
    /\ vpc = "finally"
    /\ local_copy' = FALSE
    /\ vpc' = "done"
    /\ UNCHANGED <<vinputs, loc, results, fault_at, rvars, pvars, mvars>>

NextValidate ==
    Download \/ Check1 \/ Check2 \/ Check3 \/ Check4 \/ Check5 \/ Status \/ Fault \/ Finally

(***************************************************************************)
(* validate_table as a function of what its collaborators answer           *)
(***************************************************************************)
\* the checks that call a collaborator, and so can raise
FaultPoints == {"check1", "check2", "check4", "check5"}

\* lines 231-355: the returned results; fault is the check that raises or "none"
ValidateTable(av, a, sc, cols, so, duckdb, fault, duckdb_ok) ==
    IF ~av
    THEN [InitialResults EXCEPT !.status = "NO PARQUET", !.errors = Append(@, ErrNoParquet)]
    ELSE LET pc == ParquetRowCount(a)
             pcols == ParquetColumns(a)
             r1 == [InitialResults EXCEPT !.row_count_informix = sc,
                                          !.row_count_parquet = pc,
                                          !.row_count_match = RowCountMatch(sc, pc),
                                          !.errors = @ \o RowCountErrors(sc, pc)]
             r2 == [r1 EXCEPT !.col_count_informix = Len(cols),
                              !.col_count_parquet = Len(pcols),
                              !.col_count_match = (Len(cols) = Len(pcols))]
             r3 == [r2 EXCEPT !.col_names_match = ColNamesMatch(cols, pcols),
                              !.col_name_mismatches = @ \o ColNameMismatches(cols, pcols)]
             outcome == FirstRowCheck(cols, FirstRowPresent(a), a.first)
             r4 == IF so THEN r3
                   ELSE [r3 EXCEPT !.first_row_check = outcome,
                                   !.errors = IF outcome = FAIL
                                              THEN Append(@, ErrHeaderShift) ELSE @]
             r5 == [r4 EXCEPT !.null_columns =
                                  @ \o NullColumns(pcols, NullCountsOf(duckdb, a, duckdb_ok), pc)]
         IN  IF fault = "check1" THEN Faulted(InitialResults)
             ELSE IF fault = "check2" THEN Faulted(r1)
             ELSE IF fault = "check4" THEN Faulted(r3)
             ELSE IF fault = "check5" THEN Faulted(r4)
             ELSE [r5 EXCEPT !.status = Classify(r5)]

\* the step-by-step validate_table returns what ValidateTable gives
ValidateTableAgrees ==
    vpc = "done" =>
        \E duckdb_ok \in BOOLEAN :
            results = ValidateTable(available, archive, src_count, src_cols, summary_only,
                                    has_duckdb, fault_at, duckdb_ok)

(***************************************************************************)
(* validate_archive.main: one validate_table call per table, the summary   *)
(* and the exit status.  A result is kept as its table and status, the     *)
(* fields the exit status depends on.                                      *)
(***************************************************************************)
\* the statuses validate_table can return for a table whose file can be downloaded
StatusesOf(so, duckdb) ==
    {ValidateTable(TRUE, a, sc, cols, so, duckdb, fault, duckdb_ok).status :
        a \in Archives, sc \in {NONE} \cup (0..MaxRowCount), cols \in NameLists,
        fault \in {f \in FaultPoints \cup {"none"} : f = "check4" => ~so},
        duckdb_ok \in BOOLEAN}

AvailableStatuses == [so \in BOOLEAN, duckdb \in BOOLEAN |-> StatusesOf(so, duckdb)]

UnavailableStatus ==
    ValidateTable(FALSE, NoArchive, NONE, <<>>, FALSE, FALSE, "none", TRUE).status

\* validate_archive.main not running
MIdle ==
    /\ vtables = <<>>
    /\ s3_tables = {}
    /\ vi = 0
    /\ all_results = <<>>
    /\ tally = [ok_count |-> 0, warn_count |-> 0, fail_count |-> 0]
    /\ exit_code = NONE
    /\ mpc = "idle"

\* lines 478-502
InitMain ==
    /\ vtables \in TableLists
    /\ s3_tables \in SUBSET {vtables[i] : i \in 1..Len(vtables)}
    /\ vi = 0
    /\ all_results = <<>>
    /\ tally = [ok_count |-> 0, warn_count |-> 0, fail_count |-> 0]
    /\ exit_code = NONE
    /\ mpc = "loop"

\* the flags validate_table reads
InitFlags ==
    /\ available = FALSE
    /\ archive = NoArchive
    /\ src_count = NONE
    /\ src_cols = <<>>
    /\ summary_only \in BOOLEAN
    /\ has_duckdb \in BOOLEAN
    /\ loc = InitialLocals
    /\ results = InitialResults
    /\ fault_at = "none"
    /\ local_copy = FALSE
    /\ vpc = "idle"

\* lines 504-509: validate_table on the next table
ValidateNext ==
    /\ mpc = "loop"
    /\ vi < Len(vtables)
    /\ \E st \in IF vtables[vi + 1] \in s3_tables
                 THEN AvailableStatuses[summary_only, has_duckdb]
                 ELSE {UnavailableStatus} :
          all_results' = Append(all_results, [table |-> vtables[vi + 1], status |-> st])
    /\ vi' = vi + 1
    /\ UNCHANGED <<vtables, s3_tables, tally, exit_code, mpc, rvars, pvars, vvars>>

RECURSIVE Tally(_)
\* lines 373-391 and 403
Tally(rs) ==
    IF rs = <<>> THEN [ok_count |-> 0, warn_count |-> 0, fail_count |-> 0]
    ELSE LET t == Tally(Tail(rs))
             st == Head(rs).status
         IN  IF st = "OK" THEN [t EXCEPT !.ok_count = @ + 1]
             ELSE IF st \in {"WARNING", "NAME MISMATCH"} THEN [t EXCEPT !.warn_count = @ + 1]
             ELSE [t EXCEPT !.fail_count = @ + 1]

\* lines 511-515: the loop is over; print_summary (362-403)
PrintSummary ==
    /\ mpc = "loop"
    /\ vi = Len(vtables)
    /\ tally' = Tally(all_results)
    /\ mpc' = "reports"
    /\ UNCHANGED <<vtables, s3_tables, vi, all_results, exit_code, rvars, pvars, vvars>>

\* lines 538-542
ExitCode(fail_count) == IF fail_count > 0 THEN 1 ELSE 0

\* lines 516-542: the reports are written and uploaded, then sys.exit
Exit ==
    /\ mpc = "reports"
    /\ exit_code' = ExitCode(tally.fail_count)
    /\ mpc' = "exit"
    /\ UNCHANGED <<vtables, s3_tables, vi, all_results, tally, rvars, pvars, vvars>>

NextMain == ValidateNext \/ PrintSummary \/ Exit

(***************************************************************************)
(* Specifications                                                          *)
(***************************************************************************)
\* fix_unl on an arbitrary text
RepairStart ==
    /\ InitRepair
    /\ PIdle
    /\ VIdle
    /\ MIdle
SpecRepair == RepairStart /\ [][NextRepair]_vars

\* fix_unl on the unload of a table
ExportStart ==
    /\ InitExport
    /\ PIdle
    /\ VIdle
    /\ MIdle
SpecExport == ExportStart /\ [][NextRepair]_vars

\* a run of pipe2s3.main
PipelineStart ==
    /\ InitPipeline
    /\ RIdle
    /\ VIdle
    /\ MIdle
SpecPipeline == PipelineStart /\ [][NextPipeline]_vars

\* the run executes its statements one after another and every step ends
SpecPipelineFair == PipelineStart /\ [][NextPipeline]_vars /\ WF_vars(NextPipeline)

\* one call of validate_table
ValidateStart ==
    /\ InitValidate
    /\ RIdle
    /\ PIdle
    /\ MIdle
SpecValidate == ValidateStart /\ [][NextValidate]_vars

\* a run of validate_archive.main
MainStart ==
    /\ InitMain
    /\ InitFlags
    /\ RIdle
    /\ PIdle
SpecMain == MainStart /\ [][NextMain]_vars

(***************************************************************************)
(* Properties of fix_unl                                                   *)
(***************************************************************************)
\* the fields of a record
Fields(record) == Split(record, PIPE)

\* C1: every record of fix_unl's output has exactly expected_cols fields,
\* whatever the input text.
C1_ExactColumnCount ==
    rpc = "done" => \A i \in 1..Len(final) : ColCount(final[i]) = expected_cols

\* C1 as amended: every record of the output has at least expected_cols
\* fields, and one with more is a single cleaned line that has more by itself.
C1_AtLeastColumnCount ==
    rpc = "done" =>
        \A i \in 1..Len(final) :
            /\ ColCount(final[i]) >= expected_cols
            /\ ColCount(final[i]) > expected_cols =>
                  \E k \in 1..Len(cleaned) : cleaned[k] = final[i]

C1_Witness ==
    /\ rpc = "done"
    /\ \E i \in 1..Len(final) : ColCount(final[i]) > expected_cols
    /\ \E i \in 1..Len(final) : ColCount(reassembled[i]) < expected_cols

\* C2: the unload of rows that each have expected_cols fields repairs to
\* exactly one record per row.
C2_OneRecordPerRow ==
    (rpc = "done" /\ exported) => Len(final) = Len(rows)

\* a field with no embedded newline
NoNewline(f) == \A k \in 1..Len(f) : f[k] # NEWLINE

\* C4: escape round trip: when no field holds a newline, splitting each
\* repaired record on the delimiter gives back the row's field values.
C4_EscapeRoundTrip ==
    (/\ rpc = "done"
     /\ exported
     /\ Len(final) = Len(rows)
     /\ \A i \in 1..Len(rows) : \A j \in 1..Len(rows[i]) : NoNewline(rows[i][j]))
    => \A i \in 1..Len(rows) : Fields(final[i]) = rows[i]

\* what a field should look like in a repaired record: an embedded newline
\* became one space, a literal pipe became the placeholder byte
RepairedChar(c) == IF c = NEWLINE THEN SPACE ELSE IF c = PIPE THEN BROKENBAR ELSE c
RepairedField(f) == [k \in 1..Len(f) |-> RepairedChar(f[k])]
RepairedRecord(row) == Join([j \in 1..Len(row) |-> RepairedField(row[j])], <<PIPE>>)
HasNewline(row) == \E j \in 1..Len(row) : ~NoNewline(row[j])

ScenarioRecord == <<"1", PIPE, "A", "l", "i", "c", "e", PIPE,
                    "H", "e", "l", "l", "o", SPACE, "w", "o", "r", "l", "d">>

\* C5: continuation rejoin: a row with an embedded newline comes out as a
\* single record with one space for each backslash-newline and with
\* expected_cols fields; the scenario's two physical lines come out as
\* 1|Alice|Hello world.
C5_ContinuationRejoin ==
    (rpc = "done" /\ exported) =>
        /\ \A i \in 1..Len(rows) :
              HasNewline(rows[i]) =>
                  \E k \in 1..Len(final) :
                      /\ final[k] = RepairedRecord(rows[i])
                      /\ ColCount(final[k]) = expected_cols
        /\ (Len(rows) = 1 /\ HasNewline(rows[1])) => Len(final) = 1
        /\ rows = ScenarioRows =>
              /\ final = <<ScenarioRecord>>
              /\ output = ScenarioRecord \o <<NEWLINE>>

C5_Witness ==
    /\ rpc = "done"
    /\ rows = ScenarioRows
    /\ cleaned = <<ScenarioRecord, <<>> >>
    /\ final = <<ScenarioRecord>>

\* the physical lines of a text: newline-separated, the last one optionally
\* newline-terminated
InputLines(s) ==
    IF s = <<>> THEN <<>>
    ELSE IF EndsWith(s, NEWLINE) THEN Split(SubSeq(s, 1, Len(s) - 1), NEWLINE)
    ELSE Split(s, NEWLINE)

\* one physical line per record, no escape sequences, expected_cols fields per line
WellFormed(s, n) ==
    /\ \A k \in 1..Len(s) : s[k] # BSLASH
    /\ \A i \in 1..Len(InputLines(s)) : ColCount(InputLines(s)[i]) = n

\* C6: on a well-formed text fix_unl returns the same records in the same
\* order, each its input line less at most one trailing delimiter, and
\* fix_unl of that output is that output.
C6_WellFormedNoOp ==
    (rpc = "done" /\ ~exported /\ WellFormed(content, expected_cols)) =>
        /\ Len(final) = Len(InputLines(content))
        /\ \A i \in 1..Len(final) :
              final[i] \in {InputLines(content)[i], StripTrailing(InputLines(content)[i])}
        /\ FixUnl(output, expected_cols) = output

\* C7: padding never truncates: a reassembled record with k < expected_cols
\* fields comes out with expected_cols fields, its first k fields unchanged
\* and the appended ones empty; no record comes out shorter than it went in.
C7_PaddingNeverTruncates ==
    rpc = "done" =>
        /\ Len(final) = Len(reassembled)
        /\ \A i \in 1..Len(final) :
              LET r == reassembled[i]
                  k == ColCount(r)
              IN  /\ Len(final[i]) >= Len(r)
                  /\ SubSeq(final[i], 1, Len(r)) = r
                  /\ k < expected_cols =>
                        /\ ColCount(final[i]) = expected_cols
                        /\ SubSeq(Fields(final[i]), 1, k) = Fields(r)
                        /\ \A j \in (k + 1)..expected_cols : Fields(final[i])[j] = <<>>

C7_Witness ==
    /\ rpc = "done"
    /\ \E i \in 1..Len(reassembled) :
          /\ ColCount(reassembled[i]) + 2 <= expected_cols
          /\ Len(final[i]) = Len(reassembled[i]) + 2

NonEmpty(ls) == SelectSeq(ls, LAMBDA l : l # <<>>)

RECURSIVE MatchesGroups(_, _)
\* the records are the lines cut into consecutive groups, each group joined
\* by single spaces: every line is in exactly one record, in order
MatchesGroups(records, ls) ==
    IF records = <<>> THEN ls = <<>>
    ELSE \E k \in 1..Len(ls) :
            /\ Head(records) = Join(SubSeq(ls, 1, k), <<SPACE>>)
            /\ MatchesGroups(Tail(records), SubSeq(ls, k + 1, Len(ls)))

\* the emitted records followed by the accumulator when it holds something
Holders == IF current # <<>> THEN Append(reassembled, current) ELSE reassembled

\* C17: reassembly loses and duplicates nothing: at every step of the walk
\* each non-empty cleaned line visited so far is in exactly one emitted
\* record or in the accumulator, and after the walk the records before
\* padding are the non-empty cleaned lines in order, each exactly once,
\* joined by single spaces within a record.
C17_NothingLostOrDuplicated ==
    /\ rpc = "walk" => MatchesGroups(Holders, NonEmpty(SubSeq(cleaned, 1, pos)))
    /\ rpc \in {"pad", "done"} => MatchesGroups(reassembled, NonEmpty(cleaned))

\* a short accumulator was emitted by the too-many branch
C17_Witness ==
    /\ rpc = "done"
    /\ Len(reassembled) = Len(NonEmpty(cleaned))
    /\ \E i \in 1..(Len(reassembled) - 1) : ColCount(reassembled[i]) < expected_cols

(***************************************************************************)
(* Properties of the pipeline                                              *)
(***************************************************************************)
\* C3: once a table's processing has ended, whichever step failed or none,
\* none of its local artifacts (raw export, temporary repaired file,
\* archive file) is left on disk.
C3_NoArtifactLeft ==
    ppc \in {"loop", "done"} =>
        \A k \in 1..ti : disk \cap Artifacts(tables[k]) = {}

Succeeded == {succeeded[i] : i \in 1..Len(succeeded)}
Failed == {failed[i].table : i \in 1..Len(failed)}

\* between two tables and at the end, the tables started so far are split
\* between the two lists, each in exactly one, a table without columns in failed
TallyConsistent ==
    ppc \in {"loop", "done"} =>
        /\ Succeeded \cup Failed = {tables[k] : k \in 1..ti}
        /\ Succeeded \cap Failed = {}
        /\ Len(succeeded) + Len(failed) = ti
        /\ \A k \in 1..ti :
              tables[k] \in no_schema =>
                  \E i \in 1..Len(failed) :
                      /\ failed[i].table = tables[k]
                      /\ failed[i].error \in {"Unload failed", "S3 upload failed",
                                              "Could not retrieve column names from syscolumns"}

Errors == {results.errors[i] : i \in 1..Len(results.errors)}
MismatchKinds == {"ROW MISMATCH", "COL MISMATCH", "NAME MISMATCH"}

\* the classification the priority order gives (NO ARCHIVE is the code's "NO PARQUET")
PriorityStatus ==
    IF ~available THEN "NO PARQUET"
    ELSE IF fault_at # "none" THEN "ERROR"
    ELSE IF src_count # archive.num_rows THEN "ROW MISMATCH"
    ELSE IF Len(src_cols) # Len(archive.names) THEN "COL MISMATCH"
    ELSE IF src_cols # archive.names THEN "NAME MISMATCH"
    ELSE IF results.first_row_check \in {"OK", "EMPTY TABLE", "SKIPPED"} THEN "OK"
    ELSE "WARNING"

\* C8: the returned status is the first match of: no archive, fault, row
\* counts differ, column counts differ, name lists differ, first-row check
\* clean or skipped (OK), otherwise WARNING.
C8_StatusPriority ==
    vpc = "done" => results.status = PriorityStatus

\* C9: when the row counts are equal, the column counts are equal and the
\* ordered name lists are equal (empty lists included), the status is not a
\* mismatch kind.
C9_NoMismatchWhenAllMatch ==
    (/\ vpc = "done"
     /\ available
     /\ src_count = archive.num_rows
     /\ Len(src_cols) = Len(archive.names)
     /\ src_cols = archive.names)
    => results.status \notin MismatchKinds

\* the names the first row's non-null values have in common with the source columns
CommonWithNames ==
    ({archive.first[i] : i \in 1..Len(archive.first)} \ {NULL})
    \cap {src_cols[i] : i \in 1..Len(src_cols)}

\* C10: when the first-row check runs, it reports the header-shift failure
\* and records its error string exactly when more than half of the source
\* column count is common to the first row's values and the source column
\* names, whatever the other checks found; otherwise its outcome is clean.
C10_HeaderShiftDetection ==
    (/\ vpc = "done"
     /\ available
     /\ ~summary_only
     /\ fault_at \notin {"check1", "check2", "check4"})
    => IF 2 * Cardinality(CommonWithNames) > Len(src_cols)
       THEN results.first_row_check = FAIL /\ ErrHeaderShift \in Errors
       ELSE results.first_row_check \in {"OK", "EMPTY TABLE"} /\ ErrHeaderShift \notin Errors

C10_Witness ==
    /\ vpc = "done"
    /\ results.first_row_check = FAIL
    /\ results.status = "ROW MISMATCH"
    /\ ~results.col_names_match
    /\ Len(src_cols) = 2

\* C11: when both row counts are known and differ (a count of 0 included),
\* an error string carrying archive count minus source count is recorded and
\* the status is ROW MISMATCH; for archive 950 and source 1000 the
\* difference is -50.
C11_RowMismatchRecorded ==
    (/\ vpc = "done"
     /\ available
     /\ fault_at = "none"
     /\ src_count # NONE
     /\ src_count # archive.num_rows)
    => /\ results.status = "ROW MISMATCH"
       /\ \E e \in Errors :
             /\ e.kind = "Row count mismatch"
             /\ e.diff = archive.num_rows - src_count
       /\ archive = ScenarioArchive =>
             \E e \in Errors : e.kind = "Row count mismatch" /\ e.diff = -50

\* C13: the checks are independent: whether a check finds a mismatch or
\* raises a fault, the later checks still run, so at the end the row count,
\* schema shape and first-row fields of the result hold what their checks
\* compute from the archive and the source.
C13_LaterChecksStillRun ==
    (vpc = "done" /\ available)
    => /\ results.row_count_informix = src_count
       /\ results.row_count_parquet = ParquetRowCount(archive)
       /\ results.col_count_informix = Len(src_cols)
       /\ results.col_count_parquet = Len(ParquetColumns(archive))
       /\ results.col_names_match = ColNamesMatch(src_cols, ParquetColumns(archive))
       /\ results.first_row_check =
             IF summary_only THEN "SKIPPED"
             ELSE FirstRowCheck(src_cols, FirstRowPresent(archive), archive.first)

\* C16: when no check faults, the entirely-null columns of the result are
\* exactly the archive columns whose null count equals the archive's row
\* count, for every row count including 0, and the status is the one the
\* other fields give.
C16_EntirelyNullColumnsExact ==
    (vpc = "done" /\ available /\ fault_at = "none")
    => /\ {results.null_columns[i].col : i \in 1..Len(results.null_columns)}
              = {archive.names[i] :
                    i \in {j \in 1..Len(archive.names) : archive.nulls[j] = archive.num_rows}}
       /\ results.status = Classify([results EXCEPT !.null_columns = <<>>])

(***************************************************************************)
(* Properties of validate_archive.main                                     *)
(***************************************************************************)
Classifications ==
    {"NO PARQUET", "ERROR", "ROW MISMATCH", "COL MISMATCH", "NAME MISMATCH", "OK", "WARNING"}

\* C12: at the end of a run the completion status is nonzero if and only if
\* some table's status is not OK.
C12_NonzeroIffNotAllOk ==
    mpc = "exit" =>
        (exit_code # 0 <=> \E i \in 1..Len(all_results) : all_results[i].status # "OK")

\* C14: every validate_table call returns a result whose status is one of
\* the seven classifications, never UNKNOWN, and is the no-archive status
\* exactly when the archive could not be obtained; the run validates every
\* table, so the report holds one result per requested table, in order.
C14_ClassifiedResultPerTable ==
    /\ Len(all_results) = vi
    /\ \A i \in 1..Len(all_results) :
          /\ all_results[i].table = vtables[i]
          /\ all_results[i].status \in Classifications
          /\ all_results[i].status = "NO PARQUET" <=> vtables[i] \notin s3_tables
    /\ mpc \in {"reports", "exit"} => Len(all_results) = Len(vtables)

C14_Witness ==
    /\ mpc = "exit"
    /\ Len(all_results) = 2
    /\ all_results[1].status = "NO PARQUET"
    /\ all_results[2].status = "ERROR"

====
